---- MODULE Spec2Model ----
(***************************************************************************)
(* Model of packages/wedges/src/tw-plugin/utils/colors.ts: the color       *)
(* resolver (getColorFromPalette), the themable variable generator         *)
(* (getBaseThemableColors) and the utility expander                        *)
(* (createSimpleColorUtility, createShadedColorUtility,                    *)
(* generateExtendedColorUtilities).                                        *)
(*                                                                         *)
(* The functions are pure.  A behaviour is one call: Init draws the        *)
(* function and its arguments, the function's action computes the result.  *)
(*                                                                         *)
(* JavaScript values are records [type, str, entries]:                     *)
(*   type    - "string", "object", "null", "undefined", "number",          *)
(*             "boolean" or "function";                                    *)
(*   str     - the text of a string value;                                 *)
(*   entries - the own enumerable properties of an object, as the sequence *)
(*             of <<key, value>> pairs that Object.entries returns.        *)
(* Strings are TLA+ strings; template literals are concatenations (\o).    *)
(***************************************************************************)
EXTENDS Naturals, Sequences, FiniteSets, TLC

VARIABLES pc, op, args, result

vars == <<pc, op, args, result>>

-----------------------------------------------------------------------------
(* Bounds *)

\* Largest number of colors in a palette argument.
MaxColors == 2

\* Largest number of shades in a shaded color family.
MaxShades == 2

-----------------------------------------------------------------------------
(* JavaScript values *)

Str(s) == [type |-> "string", str |-> s, entries |-> <<>>]

Obj(es) == [type |-> "object", str |-> "", entries |-> es]

Prim(t) == [type |-> t, str |-> "", entries |-> <<>>]

Undefined == Prim("undefined")

Null == Prim("null")

\* typeof v: null is reported as "object".
TypeOf(v) == IF v.type = "null" THEN "object" ELSE v.type

\* v is null or undefined (the operands that ?. and ?? treat specially).
IsNullish(v) == v.type \in {"null", "undefined"}

\* Names every object literal inherits from Object.prototype.
ObjectPrototypeKeys == {"constructor", "toString"}

\* The own keys of an object's entries.
OwnKeys(es) == {es[i][1] : i \in 1..Len(es)}

\* The own value stored under key k (k an own key).
OwnValue(es, k) == es[CHOOSE i \in 1..Len(es) : es[i][1] = k][2]

\* `k in o`: own properties and those of the prototype chain.
In(k, o) == k \in OwnKeys(o.entries) \/ k \in ObjectPrototypeKeys

\* `o[k]` for an object whose own values are JavaScript values.
GetProp(o, k) ==
    IF k \in OwnKeys(o.entries) THEN OwnValue(o.entries, k)
    ELSE IF k \in ObjectPrototypeKeys THEN Prim("function")
    ELSE Undefined

\* `v?.DEFAULT`: undefined for null and undefined, else the property DEFAULT,
\* which only a shade record that has the shade carries.
OptionalDEFAULT(v) ==
    IF IsNullish(v) THEN Undefined
    ELSE IF v.type = "object" /\ "DEFAULT" \in OwnKeys(v.entries)
         THEN Str(OwnValue(v.entries, "DEFAULT"))
    ELSE Undefined

\* Variant of Coalesce: `a || b`, which also replaces the empty string.
LogicalOr(a, b) ==
    IF IsNullish(a) \/ (a.type = "string" /\ a.str = "") THEN b ELSE a

\* `a ?? b`
Coalesce(a, b) == IF IsNullish(a) THEN b ELSE a

-----------------------------------------------------------------------------
(* Constants of the module *)

BACKGROUND_PROPERTY == "--wg-background"

\* The default palette of ../foundation (its base colors and one more family).
palette ==
    Obj(<< <<"wg-white", Obj(<< <<"DEFAULT", "#FFFFFF">> >>)>>,
           <<"wg-dark", Obj(<< <<"DEFAULT", "#121212">> >>)>>,
           <<"wg-blue", Obj(<< <<"100", "#E0EAFF">>, <<"DEFAULT", "#3366FF">> >>)>> >>)

-----------------------------------------------------------------------------
(* getColorFromPalette *)

getColorFromPalette(keyOrColor, themeColors) ==
    IF In(keyOrColor, themeColors)
    THEN Coalesce(OptionalDEFAULT(GetProp(themeColors, keyOrColor)),
                  GetProp(themeColors, keyOrColor))
    ELSE Str(keyOrColor)

-----------------------------------------------------------------------------
(* getBaseThemableColors *)

\* `colors?.<mode>?.background`: colors is undefined or a record of the two
\* modes, a mode is undefined or a record with a background, a background is
\* undefined or a string.
OptionalBackground(colors, mode) ==
    IF IsNullish(colors) THEN Undefined
    ELSE IF IsNullish(colors[mode]) THEN Undefined
    ELSE colors[mode].background

\* A declaration block setting the one custom property.
BackgroundDecl(value) == [p \in {BACKGROUND_PROPERTY} |-> value]

\* Variant of getBaseThemableColors: the dark background read from the light
\* option.
getBaseThemableColorsDarkFromLight(colors, themeColors) ==
    LET defaultLightBgColor == OptionalDEFAULT(GetProp(palette, "wg-white"))
        defaultDarkBgColor == OptionalDEFAULT(GetProp(palette, "wg-dark"))
        lightBgColor ==
            getColorFromPalette(
                Coalesce(OptionalBackground(colors, "light"), defaultLightBgColor).str,
                Coalesce(themeColors, palette))
        darkBgColor ==
            getColorFromPalette(
                Coalesce(OptionalBackground(colors, "light"), defaultDarkBgColor).str,
                Coalesce(themeColors, palette))
    IN  (":root, .light" :> BackgroundDecl(lightBgColor))
        @@ ("@media (prefers-color-scheme: dark)" :>
                [s \in {":root"} |-> BackgroundDecl(darkBgColor)])
        @@ (".dark" :> BackgroundDecl(darkBgColor))

\* Variant of getBaseThemableColors: always the default palette.
getBaseThemableColorsDefaultPalette(colors, themeColors) ==
    LET defaultLightBgColor == OptionalDEFAULT(GetProp(palette, "wg-white"))
        defaultDarkBgColor == OptionalDEFAULT(GetProp(palette, "wg-dark"))
        lightBgColor ==
            getColorFromPalette(
                Coalesce(OptionalBackground(colors, "light"), defaultLightBgColor).str,
                palette)
        darkBgColor ==
            getColorFromPalette(
                Coalesce(OptionalBackground(colors, "dark"), defaultDarkBgColor).str,
                palette)
    IN  (":root, .light" :> BackgroundDecl(lightBgColor))
        @@ ("@media (prefers-color-scheme: dark)" :>
                [s \in {":root"} |-> BackgroundDecl(darkBgColor)])
        @@ (".dark" :> BackgroundDecl(darkBgColor))

getBaseThemableColors(colors, themeColors) ==
    LET defaultLightBgColor == OptionalDEFAULT(GetProp(palette, "wg-white"))
        defaultDarkBgColor == OptionalDEFAULT(GetProp(palette, "wg-dark"))
        lightBgColor ==
            getColorFromPalette(
                Coalesce(OptionalBackground(colors, "light"), defaultLightBgColor).str,
                Coalesce(themeColors, palette))
        darkBgColor ==
            getColorFromPalette(
                Coalesce(OptionalBackground(colors, "dark"), defaultDarkBgColor).str,
                Coalesce(themeColors, palette))
    IN  (":root, .light" :> BackgroundDecl(lightBgColor))
        @@ ("@media (prefers-color-scheme: dark)" :>
                [s \in {":root"} |-> BackgroundDecl(darkBgColor)])
        @@ (".dark" :> BackgroundDecl(darkBgColor))

-----------------------------------------------------------------------------
(* Utility expansion *)

\* The declarations of one utility class.
ColorDecl(value) == [p \in {"backgroundColor", BACKGROUND_PROPERTY} |-> value]

\* `utilities = {}`
EmptyUtilities == [k \in {} |-> ColorDecl("")]

\* Object.assign(target, source), also `target[k] = v` for a one-key source.
ObjectAssign(target, source) ==
    [k \in DOMAIN target \cup DOMAIN source |->
        IF k \in DOMAIN source THEN source[k] ELSE target[k]]

\* Variant of createSimpleColorUtility: the custom property left out.
createSimpleColorUtilityNoProperty(colorName, colorValue) ==
    (".wg-background-" \o colorName) :> [p \in {"backgroundColor"} |-> colorValue]

createSimpleColorUtility(colorName, colorValue) ==
    (".wg-background-" \o colorName) :> ColorDecl(colorValue)

\* Variant of ShadeClassName: DEFAULT suffixed like any other shade.
ShadeClassNameAlwaysSuffixed(colorName, shade) ==
    ".wg-background-" \o colorName \o "-" \o shade

\* Variant of ShadeClassName: the shade left out of the name.
ShadeClassNameUnsuffixed(colorName, shade) ==
    ".wg-background-" \o colorName

\* The class name createShadedColorUtility gives a shade.
ShadeClassName(colorName, shade) ==
    IF shade = "DEFAULT"
    THEN ".wg-background-" \o colorName
    ELSE ".wg-background-" \o colorName \o "-" \o shade

\* The loop of createShadedColorUtility over the entries from index i on.
RECURSIVE ShadedLoop(_, _, _, _)
ShadedLoop(colorName, es, i, utilities) ==
    IF i > Len(es) THEN utilities
    ELSE ShadedLoop(colorName, es, i + 1,
            ObjectAssign(utilities,
                ShadeClassName(colorName, es[i][1]) :> ColorDecl(es[i][2])))

\* Object.entries(v) throws a TypeError for null and undefined.
ObjectEntriesThrows(v) == IsNullish(v)

\* The outcome of a call: whether it threw, and the value returned if not.
Returned(v) == [threw |-> FALSE, value |-> v]

Thrown == [threw |-> TRUE, value |-> EmptyUtilities]

createShadedColorUtility(colorName, colorValues) ==
    IF ObjectEntriesThrows(colorValues) THEN Thrown
    ELSE Returned(ShadedLoop(colorName, colorValues.entries, 1, EmptyUtilities))

\* The loop of generateExtendedColorUtilities over the entries from index i on.
RECURSIVE ExtendedLoop(_, _, _)
ExtendedLoop(es, i, utilities) ==
    IF i > Len(es) THEN Returned(utilities)
    ELSE LET colorName == es[i][1]
             colorValue == es[i][2]
         IN  IF TypeOf(colorValue) = "string"
             THEN ExtendedLoop(es, i + 1,
                    ObjectAssign(utilities,
                        createSimpleColorUtility(colorName, colorValue.str)))
             ELSE IF TypeOf(colorValue) = "object"
             THEN LET shaded == createShadedColorUtility(colorName, colorValue)
                  IN  IF shaded.threw THEN Thrown
                      ELSE ExtendedLoop(es, i + 1,
                                ObjectAssign(utilities, shaded.value))
             ELSE ExtendedLoop(es, i + 1, utilities)

generateExtendedColorUtilities(colors) ==
    ExtendedLoop(colors.entries, 1, EmptyUtilities)

-----------------------------------------------------------------------------
(* Arguments *)

\* Literal color values; the empty string is a string like any other.
ColorValues == {"#0000FF", ""}

ShadeNames == {"DEFAULT", "100"}

\* Keys that are array indices: Object.entries lists them first.
ArrayIndexKeys == {"100"}

\* Sequences of at most n <<key, value>> pairs with distinct keys.
EntriesOf(keys, values, n) ==
    {es \in UNION {[1..m -> keys \X values] : m \in 0..n} :
        \A i, j \in 1..Len(es) : es[i][1] = es[j][1] => i = j}

\* Own property order: array-index keys come before the other keys.
InEntriesOrder(es) ==
    \A i, j \in 1..Len(es) :
        (es[j][1] \in ArrayIndexKeys /\ es[i][1] \notin ArrayIndexKeys) => j < i

\* Shaded families, with or without a DEFAULT shade.
Families ==
    {Obj(es) : es \in {e \in EntriesOf(ShadeNames, ColorValues, MaxShades) :
                            InEntriesOrder(e)}}

\* The values a Colors palette holds: literal strings and shade records.
PaletteValues == {Str(s) : s \in ColorValues} \cup Families

\* Keys of the palettes passed as themeColors: a key the default palette has
\* too, a key it has not, and a key that reads like a color.
PaletteKeys == {"wg-blue", "brand", "#FFFFFF"}

Palettes == {Obj(es) : es \in EntriesOf(PaletteKeys, PaletteValues, MaxColors)}

\* keyOrColor strings: the palette keys, a key of the default palette only, a
\* plain color, and a name objects inherit.
KeyOrColors == PaletteKeys \cup {"wg-dark", "#ABCDEF", "constructor"}

\* One mode of ThemeableColorOptions.
ModeOptions ==
    {Undefined}
    \cup {[type |-> "object", background |-> b] :
            b \in {Undefined} \cup {Str(s) : s \in KeyOrColors}}

ThemeableColorOptions ==
    {Undefined}
    \cup {[type |-> "object", light |-> l, dark |-> d] :
            l \in ModeOptions, d \in ModeOptions}

\* Color names given to the utility expander.
ColorNames == {"blue", "blue-100", "red"}

\* Values of a Record<string, any>: also values that are no color at all.
AnyValues ==
    PaletteValues \cup {Null, Undefined, Prim("number"), Prim("boolean")}

ExtendedColors == {Obj(es) : es \in EntriesOf(ColorNames, AnyValues, MaxColors)}

-----------------------------------------------------------------------------
(* One call *)

NoResult == Returned(Undefined)

Init ==
    /\ pc = "call"
    /\ result = NoResult
    /\ \/ /\ op = "getColorFromPalette"
          /\ args \in [keyOrColor : KeyOrColors, themeColors : Palettes]
       \/ /\ op = "getBaseThemableColors"
          /\ args \in [colors : ThemeableColorOptions,
                       themeColors : {Undefined} \cup Palettes]
       \/ /\ op = "createSimpleColorUtility"
          /\ args \in [colorName : ColorNames, colorValue : ColorValues]
       \/ /\ op = "createShadedColorUtility"
          /\ args \in [colorName : ColorNames, colorValues : Families]
       \/ /\ op = "generateExtendedColorUtilities"
          /\ args \in [colors : ExtendedColors]

CallGetColorFromPalette ==
    /\ pc = "call" /\ op = "getColorFromPalette"
    /\ result' = Returned(getColorFromPalette(args.keyOrColor, args.themeColors))
    /\ pc' = "done"
    /\ UNCHANGED <<op, args>>

CallGetBaseThemableColors ==
    /\ pc = "call" /\ op = "getBaseThemableColors"
    /\ result' = Returned(getBaseThemableColors(args.colors, args.themeColors))
    /\ pc' = "done"
    /\ UNCHANGED <<op, args>>

CallCreateSimpleColorUtility ==
    /\ pc = "call" /\ op = "createSimpleColorUtility"
    /\ result' = Returned(createSimpleColorUtility(args.colorName, args.colorValue))
    /\ pc' = "done"
    /\ UNCHANGED <<op, args>>

CallCreateShadedColorUtility ==
    /\ pc = "call" /\ op = "createShadedColorUtility"
    /\ result' = createShadedColorUtility(args.colorName, args.colorValues)
    /\ pc' = "done"
    /\ UNCHANGED <<op, args>>

CallGenerateExtendedColorUtilities ==
    /\ pc = "call" /\ op = "generateExtendedColorUtilities"
    /\ result' = generateExtendedColorUtilities(args.colors)
    /\ pc' = "done"
    /\ UNCHANGED <<op, args>>

Next ==
    \/ CallGetColorFromPalette
    \/ CallGetBaseThemableColors
    \/ CallCreateSimpleColorUtility
    \/ CallCreateShadedColorUtility
    \/ CallGenerateExtendedColorUtilities

Spec == Init /\ [][Next]_vars

\* The call named f has returned or thrown.
Done(f) == pc = "done" /\ op = f

-----------------------------------------------------------------------------
(* Properties of getColorFromPalette *)

\* The palette entry stored under an own key of the themeColors argument.
EntryOf(key) == OwnValue(args.themeColors.entries, key)

\* What a palette entry resolves to: a literal is itself, a family is its
\* DEFAULT shade.
HasDEFAULT(e) == e.type = "object" /\ "DEFAULT" \in OwnKeys(e.entries)

\* C1: for every palette and every string s that is not a key of the palette,
\* getColorFromPalette(s, palette) returns s unchanged.
C1_PassThrough ==
    (Done("getColorFromPalette")
        /\ args.keyOrColor \notin OwnKeys(args.themeColors.entries))
    => result = Returned(Str(args.keyOrColor))

\* C2: for a name that is a key of the palette, getColorFromPalette returns the
\* entry itself when the entry is a literal string, and the value of the
\* entry's DEFAULT shade when the entry is a family that has one, whatever
\* string that value is.
C2_KeyResolves ==
    (Done("getColorFromPalette")
        /\ args.keyOrColor \in OwnKeys(args.themeColors.entries))
    => LET e == EntryOf(args.keyOrColor)
       IN  /\ ~result.threw
           /\ e.type = "string" => result.value = e
           /\ HasDEFAULT(e) => result.value = Str(OwnValue(e.entries, "DEFAULT"))

\* C2 happens: a family whose DEFAULT is the empty string and whose other shade
\* is not resolves to the empty string.
C2_Witness ==
    /\ Done("getColorFromPalette")
    /\ args.keyOrColor = "brand"
    /\ args.themeColors = Obj(<< <<"brand",
            Obj(<< <<"100", "#0000FF">>, <<"DEFAULT", "">> >>)>> >>)
    /\ result.value = Str("")

\* C10: getColorFromPalette always returns a literal color string and never
\* raises an error, for every string and every palette of literal strings and
\* shade records, also when the matched family has no DEFAULT shade.
C10_ReturnsString ==
    Done("getColorFromPalette")
    => ~result.threw /\ result.value.type = "string"

-----------------------------------------------------------------------------
(* Properties of getBaseThemableColors *)

LightSelector == ":root, .light"

DarkMediaQuery == "@media (prefers-color-scheme: dark)"

DarkSelector == ".dark"

\* The three values the result holds for --wg-background.
LightValue == result.value[LightSelector][BACKGROUND_PROPERTY]

DarkMediaValue == result.value[DarkMediaQuery][":root"][BACKGROUND_PROPERTY]

DarkValue == result.value[DarkSelector][BACKGROUND_PROPERTY]

\* The options with the given mode's background only.
OnlyMode(colors, mode) ==
    [type |-> "object",
     light |-> IF mode = "light" /\ ~IsNullish(colors) THEN colors.light ELSE Undefined,
     dark |-> IF mode = "dark" /\ ~IsNullish(colors) THEN colors.dark ELSE Undefined]

\* The palette a user-specified background is resolved against.
UsedPalette == IF IsNullish(args.themeColors) THEN palette ELSE args.themeColors

\* C3: getBaseThemableColors returns exactly the three entries ":root, .light",
\* the dark media query (holding only ":root") and ".dark", each setting only
\* --wg-background; the light value is the resolved light background, the two
\* dark values are equal to each other and to the resolved dark background,
\* and neither mode's option influences the other mode's value.
C3_ThreeContexts ==
    Done("getBaseThemableColors")
    => LET r == result.value
           light == OptionalBackground(args.colors, "light")
           dark == OptionalBackground(args.colors, "dark")
       IN  /\ ~result.threw
           /\ DOMAIN r = {LightSelector, DarkMediaQuery, DarkSelector}
           /\ DOMAIN r[LightSelector] = {BACKGROUND_PROPERTY}
           /\ DOMAIN r[DarkMediaQuery] = {":root"}
           /\ DOMAIN r[DarkMediaQuery][":root"] = {BACKGROUND_PROPERTY}
           /\ DOMAIN r[DarkSelector] = {BACKGROUND_PROPERTY}
           /\ DarkMediaValue = DarkValue
           /\ ~IsNullish(light)
                => LightValue = getColorFromPalette(light.str, UsedPalette)
           /\ ~IsNullish(dark)
                => DarkValue = getColorFromPalette(dark.str, UsedPalette)
           /\ r[LightSelector]
                = getBaseThemableColors(OnlyMode(args.colors, "light"),
                                        args.themeColors)[LightSelector]
           /\ r[DarkSelector]
                = getBaseThemableColors(OnlyMode(args.colors, "dark"),
                                        args.themeColors)[DarkSelector]

\* C3 happens: both backgrounds given and different, no extended palette.
C3_Witness ==
    /\ Done("getBaseThemableColors")
    /\ IsNullish(args.themeColors)
    /\ OptionalBackground(args.colors, "light") = Str("wg-blue")
    /\ OptionalBackground(args.colors, "dark") = Str("#ABCDEF")
    /\ LightValue = Str("#3366FF")
    /\ DarkValue = Str("#ABCDEF")
    /\ DarkMediaValue = Str("#ABCDEF")

\* C8: when a mode has no user-specified background, the value emitted for it
\* is the built-in default base color of the mode (the DEFAULT of "wg-white"
\* for light, of "wg-dark" for dark), whatever extended palette is supplied.
C8_DefaultsWhenAbsent ==
    Done("getBaseThemableColors")
    => /\ IsNullish(OptionalBackground(args.colors, "light"))
            => LightValue = OptionalDEFAULT(GetProp(palette, "wg-white"))
       /\ IsNullish(OptionalBackground(args.colors, "dark"))
            => /\ DarkValue = OptionalDEFAULT(GetProp(palette, "wg-dark"))
               /\ DarkMediaValue = OptionalDEFAULT(GetProp(palette, "wg-dark"))

\* What an entry of a palette resolves to.
Resolved(e) ==
    IF HasDEFAULT(e) THEN Str(OwnValue(e.entries, "DEFAULT")) ELSE e

\* The value expected for a user-specified background b.
C9_Expected(b) ==
    IF b \in OwnKeys(UsedPalette.entries)
    THEN Resolved(OwnValue(UsedPalette.entries, b))
    ELSE Str(b)

\* b is a key of the extended palette or of the default palette.
C9_IsKey(b) == b \in OwnKeys(UsedPalette.entries) \cup OwnKeys(palette.entries)

\* C9: a user-specified background is resolved against the extended palette
\* when one is provided and against the default palette only when none is: a
\* key of the extended palette resolves to that palette's value (also when the
\* default palette defines the key differently), and a key of the default
\* palette only is emitted unchanged.
C9_ExtendedPaletteFirst ==
    Done("getBaseThemableColors")
    => LET light == OptionalBackground(args.colors, "light")
           dark == OptionalBackground(args.colors, "dark")
       IN  /\ (~IsNullish(light) /\ C9_IsKey(light.str))
                => LightValue = C9_Expected(light.str)
           /\ (~IsNullish(dark) /\ C9_IsKey(dark.str))
                => /\ DarkValue = C9_Expected(dark.str)
                   /\ DarkMediaValue = C9_Expected(dark.str)

\* C9 happens: the extended palette redefines "wg-blue" as a literal and has
\* no "wg-dark"; the first resolves to the extended value, the second is
\* emitted as it is.
C9_Witness ==
    /\ Done("getBaseThemableColors")
    /\ args.themeColors = Obj(<< <<"wg-blue", Str("#0000FF")>> >>)
    /\ OptionalBackground(args.colors, "light") = Str("wg-blue")
    /\ OptionalBackground(args.colors, "dark") = Str("wg-dark")
    /\ LightValue = Str("#0000FF")
    /\ DarkValue = Str("wg-dark")

-----------------------------------------------------------------------------
(* Properties of the utility expander *)

\* Both properties of a class set to the one value.
BothSetTo(decl, value) ==
    /\ DOMAIN decl = {"backgroundColor", BACKGROUND_PROPERTY}
    /\ decl["backgroundColor"] = value
    /\ decl[BACKGROUND_PROPERTY] = value

\* C5: for a shaded family, createShadedColorUtility emits exactly one class
\* per shade, ".wg-background-{name}" for the shade DEFAULT and
\* ".wg-background-{name}-{shade}" for every other shade, each setting
\* backgroundColor and --wg-background to the shade's value; no class
\* ".wg-background-{name}-DEFAULT" is emitted, and a family with no DEFAULT
\* shade yields no unshaded class and raises no error.
C5_OneClassPerShade ==
    Done("createShadedColorUtility")
    => LET name == args.colorName
           es == args.colorValues.entries
           u == result.value
       IN  /\ ~result.threw
           /\ Cardinality(DOMAIN u) = Len(es)
           /\ \A i \in 1..Len(es) :
                LET class == IF es[i][1] = "DEFAULT"
                             THEN ".wg-background-" \o name
                             ELSE ".wg-background-" \o name \o "-" \o es[i][1]
                IN  class \in DOMAIN u /\ BothSetTo(u[class], es[i][2])
           /\ (".wg-background-" \o name \o "-DEFAULT") \notin DOMAIN u
           /\ "DEFAULT" \notin OwnKeys(es)
                => (".wg-background-" \o name) \notin DOMAIN u

\* C5 happens: the family { 100, DEFAULT } of "blue" gives the two classes.
C5_Witness ==
    /\ Done("createShadedColorUtility")
    /\ args.colorName = "blue"
    /\ args.colorValues = Obj(<< <<"100", "">>, <<"DEFAULT", "#0000FF">> >>)
    /\ DOMAIN result.value = {".wg-background-blue", ".wg-background-blue-100"}

\* C6: for a palette of a single literal color name -> value,
\* generateExtendedColorUtilities yields exactly one class,
\* ".wg-background-{name}", with backgroundColor and --wg-background both equal
\* to value, and nothing else.
C6_SingleLiteral ==
    (Done("generateExtendedColorUtilities")
        /\ Len(args.colors.entries) = 1
        /\ args.colors.entries[1][2].type = "string")
    => LET name == args.colors.entries[1][1]
           value == args.colors.entries[1][2].str
       IN  /\ ~result.threw
           /\ DOMAIN result.value = {".wg-background-" \o name}
           /\ BothSetTo(result.value[".wg-background-" \o name], value)

\* C6 happens: { red: "#0000FF" }.
C6_Witness ==
    /\ Done("generateExtendedColorUtilities")
    /\ args.colors = Obj(<< <<"red", Str("#0000FF")>> >>)
    /\ DOMAIN result.value = {".wg-background-red"}

\* The (colorName, shade) pairs of an input: entry i gives one pair per shade,
\* a literal the pair with the shade DEFAULT.
PairsOf(es) ==
    {[entry |-> i, colorName |-> es[i][1], shade |-> "DEFAULT", value |-> es[i][2].str] :
        i \in {j \in 1..Len(es) : es[j][2].type = "string"}}
    \cup UNION {
        {[entry |-> i, colorName |-> es[i][1], shade |-> es[i][2].entries[k][1],
          value |-> es[i][2].entries[k][2]] : k \in 1..Len(es[i][2].entries)} :
        i \in {j \in 1..Len(es) : es[j][2].type = "object"}}

\* C4, as stated: no two distinct (colorName, shade) pairs of the input produce
\* the same class name, so the output holds one separate class for each pair.
C4_NoCollisions ==
    (Done("generateExtendedColorUtilities") /\ ~result.threw)
    => Cardinality(DOMAIN result.value) = Cardinality(PairsOf(args.colors.entries))

\* The class name of a pair.
PairClass(p) == ShadeClassName(p.colorName, p.shade)

\* C4, amended: no two distinct shades of the same color name produce the same
\* class name and every pair's class is in the output; pairs of different
\* color names can share a class name, and the class then carries the
\* declarations of the pair whose entry comes last.
C4_NoCollisionsWithinAColor ==
    (Done("generateExtendedColorUtilities") /\ ~result.threw)
    => LET pairs == PairsOf(args.colors.entries)
           u == result.value
       IN  /\ \A p, q \in pairs :
                (p.colorName = q.colorName /\ p.shade # q.shade)
                    => PairClass(p) # PairClass(q)
           /\ DOMAIN u = {PairClass(p) : p \in pairs}
           /\ \A p \in pairs :
                (\A q \in pairs : PairClass(q) = PairClass(p) => q.entry <= p.entry)
                    => BothSetTo(u[PairClass(p)], p.value)

\* C4 happens: shade 100 of "blue" and the literal "blue-100" share a class,
\* the two shades of "blue" do not.
C4_Witness ==
    /\ Done("generateExtendedColorUtilities")
    /\ args.colors = Obj(<< <<"blue", Obj(<< <<"100", "">>, <<"DEFAULT", "">> >>)>>,
                            <<"blue-100", Str("#0000FF")>> >>)
    /\ DOMAIN result.value = {".wg-background-blue", ".wg-background-blue-100"}
    /\ result.value[".wg-background-blue-100"][BACKGROUND_PROPERTY] = "#0000FF"

\* A value that is a literal string or a shaded-family record.
IsColor(v) == v.type \in {"string", "object"}

\* The input without its entries that are neither.
ColorsOnly(colors) == Obj(SelectSeq(colors.entries, LAMBDA e : IsColor(e[2])))

\* C7: every input entry whose value is neither a string nor a shaded-family
\* record (a number, a boolean, undefined, null) is silently skipped: no class
\* for it, no error, and the classes of the other entries are unaffected.
C7_OthersSkipped ==
    Done("generateExtendedColorUtilities")
    => /\ ~result.threw
       /\ result.value = generateExtendedColorUtilities(ColorsOnly(args.colors)).value

====
